---- MODULE Spec2Model ----
(***************************************************************************)
(* A model of d2h.py: the DWARF type-graph finalization engine, the        *)
(* cross-unit merge of main, and the struct layout functions               *)
(* (Struct.get_padding_list, Struct.generate_hydras_definition).           *)
(***************************************************************************)
EXTENDS Integers, Sequences, FiniteSets, TLC

\* ---------------------------------------------------------------------
\* Type states (d2h.py:12-14)
\* ---------------------------------------------------------------------
STATE_INITIAL == 0
STATE_IN_PROCESS == 1
STATE_FINALIZED == 2

\* Python's None for the numeric fields (byte sizes, type numbers), and for
\* names.  Byte sizes and DIE offsets are never negative, and no name of the
\* model's universe is the text "None".
None == -1
NoName == "None"

\* ---------------------------------------------------------------------
\* Bounds of the model
\* ---------------------------------------------------------------------
MaxNodes == 2          \* DIEs of the compilation unit of Spec
MaxMembers == 1        \* members of a struct, variants of a union (Spec)
MaxDims == 1           \* dimensions of an array (Spec)
MergeUnits == 2        \* compilation units of SpecMerge
MaxByteSize == 4       \* declared size of the struct of SpecLayout
MaxOffset == 3         \* offset of a member of the struct of SpecLayout
LayoutMembers == 2     \* members of the struct of SpecLayout

\* ---------------------------------------------------------------------
\* Type nodes.  A type reference is a raw type number (the DIE's offset in
\* the unit) until finalization replaces it by the node object itself;
\* obj tells the two apart, num is the key of the node in the unit's map.
\* ---------------------------------------------------------------------
Raw(n) == [num |-> n, obj |-> FALSE]
Obj(n) == [num |-> n, obj |-> TRUE]
NoRef == Raw(None)

\* Type.__init__: no name, no byte size, STATE_INITIAL.
Type ==
    [kind |-> "Type", name |-> NoName, byte_size |-> None,
     state |-> STATE_INITIAL, members |-> <<>>, item_type |-> NoRef,
     alias |-> NoRef, dimensions |-> <<>>, literals |-> <<>>,
     variants |-> <<>>]

Primitive(name, byte_size) ==
    [Type EXCEPT !.kind = "Primitive", !.name = name, !.byte_size = byte_size]

\* members: a sequence of [offset, type, name]; byte_size is 0 when the DIE
\* has no DW_AT_byte_size.
Struct(name, byte_size, members) ==
    [Type EXCEPT !.kind = "Struct", !.name = name, !.byte_size = byte_size,
                 !.members = members]

Array(item_type, dimensions) ==
    [Type EXCEPT !.kind = "Array", !.item_type = item_type,
                 !.dimensions = dimensions]

Typedef(name, alias) ==
    [Type EXCEPT !.kind = "Typedef", !.name = name, !.alias = alias]

Pointer(byte_size, item_type) ==
    [Type EXCEPT !.kind = "Pointer", !.byte_size = byte_size,
                 !.item_type = item_type]

ConstType(item_type) ==
    [Type EXCEPT !.kind = "ConstType", !.item_type = item_type]

EnumType(name, item_type, literals) ==
    [Type EXCEPT !.kind = "EnumType", !.name = name, !.item_type = item_type,
                 !.literals = literals]

\* variants: a sequence of [name, type] (an OrderedDict in the source).
UnionType(name, byte_size, variants) ==
    [Type EXCEPT !.kind = "UnionType", !.name = name, !.byte_size = byte_size,
                 !.variants = variants]

UnsupportedType == [Type EXCEPT !.kind = "UnsupportedType"]

\* ---------------------------------------------------------------------
\* The inputs: the node map parse_dwarf_info builds for a unit, and the
\* --whitelist patterns.
\* ---------------------------------------------------------------------
SeqsUpTo(S, n) == UNION {[1..k -> S] : k \in 0..n}

FieldNames == <<"a", "b", "c", "d">>

MemberLists(refs) ==
    {[i \in 1..Len(ts) |-> [offset |-> 4 * (i - 1), type |-> ts[i],
                            name |-> FieldNames[i]]] :
        ts \in SeqsUpTo(refs, MaxMembers)}

VariantLists(refs) ==
    {[i \in 1..Len(ts) |-> [name |-> FieldNames[i], type |-> ts[i]]] :
        ts \in SeqsUpTo(refs, MaxMembers)}

NodeUniverse(n) ==
    LET refs == {Raw(k) : k \in 1..n}
        optrefs == refs \cup {NoRef}
    IN  {Primitive("int", 4), UnsupportedType}
        \cup {Struct(nm, 4 * Len(ms), ms) :
                nm \in {NoName, "S"}, ms \in MemberLists(refs)}
        \cup {Array(r, ds) : r \in refs, ds \in SeqsUpTo({2}, MaxDims)}
        \cup {Typedef("T", r) : r \in optrefs}
        \cup {Pointer(8, r) : r \in optrefs}
        \cup {ConstType(r) : r \in optrefs}
        \cup {EnumType("E", r, <<>>) : r \in refs}
        \cup {UnionType("U", 4, vs) : vs \in VariantLists(refs)}

UnitUniverse(n) == [1..n -> NodeUniverse(n)]

PatternLists == {<<>>, <<"S">>, <<"T">>}

\* re.match of a literal pattern: the pattern is a prefix of the name.
NameTails == {"", "t"}
match(p, name) == \E rest \in NameTails : p \o rest = name

\* ---------------------------------------------------------------------
\* State
\* ---------------------------------------------------------------------
VARIABLES
    types,               \* translation_units: unit -> (offset -> node)
    patterns,            \* the compiled --whitelist patterns
    pc,                  \* where main is
    error,               \* the exception that ended main, "" if none
    cu,                  \* the unit main's outer loop is at
    sel,                 \* the node the selection loop is at
    call,                \* the node finalize was just called on, or None
    stack,               \* the do_finalize frames: [node, i calls made]
    finalization_order,  \* the unit's finalization order
    mi,                  \* the entry of finalization_order the merge is at
    all_structs,         \* the merged result: <<unit, offset>> objects
    fp,                  \* the lines written to the output
    pads                 \* what get_padding_list returned

vars == <<types, patterns, pc, error, cu, sel, call, stack,
          finalization_order, mi, all_structs, fp, pads>>

NumUnits == Len(types)
NumNodes(u) == Len(types[u])

\* get_padding_list was not called.
NoPads == [called |-> FALSE, err |-> "", pads |-> <<>>]

\* The node object <<unit, offset>>.
Node(o) == types[o[1]][o[2]]

\* main before its first compilation unit; nothing written, nothing merged.
InitRest ==
    /\ error = ""
    /\ cu = 1
    /\ sel = 1
    /\ call = None
    /\ stack = <<>>
    /\ finalization_order = <<>>
    /\ mi = 1
    /\ all_structs = <<>>
    /\ fp = <<>>
    /\ pads = NoPads

InitMain == pc = "select" /\ InitRest

Init ==
    /\ types \in {<<u>> : u \in UnitUniverse(MaxNodes)}
    /\ patterns \in PatternLists
    /\ InitMain

\* ---------------------------------------------------------------------
\* main, lines 534-538: the selection loop
\* ---------------------------------------------------------------------
Selected(s) ==
    ~(s.name = NoName \/ ~\E k \in 1..Len(patterns) : match(patterns[k], s.name))

Select ==
    /\ pc = "select" /\ call = None /\ stack = <<>>
    /\ sel <= NumNodes(cu)
    /\ call' = IF Selected(types[cu][sel]) THEN sel ELSE None
    /\ sel' = sel + 1
    /\ UNCHANGED <<types, patterns, pc, error, cu, stack, finalization_order,
                   mi, all_structs, fp, pads>>

SelectDone ==
    /\ pc = "select" /\ call = None /\ stack = <<>>
    /\ sel > NumNodes(cu)
    /\ pc' = "merge"
    /\ mi' = 1
    /\ UNCHANGED <<types, patterns, error, cu, sel, call, stack,
                   finalization_order, all_structs, fp, pads>>

\* ---------------------------------------------------------------------
\* Type.finalize without its early return on STATE_FINALIZED (lines 40-41)
\* ---------------------------------------------------------------------
finalize_without_return ==
    /\ pc = "select" /\ call # None
    /\ call' = None
    /\ LET self == types[cu][call] IN
       CASE self.state = STATE_IN_PROCESS ->
              /\ pc' = "aborted"
              /\ error' = "Type cycle detected"
              /\ UNCHANGED <<types, stack>>
         [] OTHER ->
              /\ types' = [types EXCEPT ![cu][call].state = STATE_IN_PROCESS]
              /\ stack' = Append(stack, [node |-> call, i |-> 0])
              /\ UNCHANGED <<pc, error>>
    /\ UNCHANGED <<patterns, cu, sel, finalization_order, mi, all_structs, fp, pads>>

\* ---------------------------------------------------------------------
\* Type.finalize, lines 39-47, up to the call of do_finalize
\* ---------------------------------------------------------------------
finalize ==
    /\ pc = "select" /\ call # None
    /\ call' = None
    /\ LET self == types[cu][call] IN
       CASE self.state = STATE_FINALIZED ->
              UNCHANGED <<types, stack, pc, error>>
         [] self.state = STATE_IN_PROCESS ->
              /\ pc' = "aborted"
              /\ error' = "Type cycle detected"
              /\ UNCHANGED <<types, stack>>
         [] OTHER ->
              /\ types' = [types EXCEPT ![cu][call].state = STATE_IN_PROCESS]
              /\ stack' = Append(stack, [node |-> call, i |-> 0])
              /\ UNCHANGED <<pc, error>>
    /\ UNCHANGED <<patterns, cu, sel, finalization_order, mi, all_structs, fp, pads>>

\* ---------------------------------------------------------------------
\* The do_finalize methods
\* ---------------------------------------------------------------------
\* The type numbers a node's do_finalize calls finalize on, in order.
Children(self) ==
    CASE self.kind = "Struct" ->
           [i \in 1..Len(self.members) |-> self.members[i].type.num]
      [] self.kind = "Array" -> <<self.item_type.num>>
      [] self.kind = "Typedef" ->
           IF self.alias.num = None THEN <<>> ELSE <<self.alias.num>>
      [] self.kind = "EnumType" ->
           IF self.item_type.num = None THEN <<>> ELSE <<self.item_type.num>>
      [] self.kind = "UnionType" ->
           [i \in 1..Len(self.variants) |-> self.variants[i].type.num]
      [] OTHER -> <<>>

\* The assignments a do_finalize makes between its (i-1)th and ith call.
BeforeCall(self, i) ==
    CASE self.kind = "Array" ->
           [self EXCEPT !.item_type = Obj(self.item_type.num)]
      [] self.kind = "Typedef" ->
           [self EXCEPT !.alias = Obj(self.alias.num)]
      [] self.kind = "EnumType" ->
           [self EXCEPT !.item_type = Obj(self.item_type.num)]
      [] self.kind = "UnionType" /\ i > 1 ->
           [self EXCEPT !.variants[i - 1].type = Obj(self.variants[i - 1].type.num)]
      [] OTHER -> self

RECURSIVE Product(_)
Product(ds) == IF ds = <<>> THEN 1 ELSE Head(ds) * Product(Tail(ds))

\* The exception a do_finalize raises after its last call, "" if none.
DoFinalizeError(self, unit) ==
    CASE self.kind = "ConstType" /\ self.item_type.num = None -> "AttributeError"
      [] self.kind = "Array" /\ unit[self.item_type.num].byte_size = None
                             /\ self.dimensions # <<>> -> "TypeError"
      [] OTHER -> ""

\* The do_finalize assignments with a Pointer.do_finalize that takes its
\* byte size from the pointee, as Typedef.do_finalize does from its alias.
AfterCalls_pointer_sized_by_item(self, unit) ==
    CASE self.kind = "Struct" ->
           [self EXCEPT !.members =
               [i \in 1..Len(self.members) |->
                   [self.members[i] EXCEPT !.type = Obj(self.members[i].type.num)]]]
      [] self.kind = "Array" ->
           [self EXCEPT !.byte_size =
               IF unit[self.item_type.num].byte_size = None THEN None
               ELSE unit[self.item_type.num].byte_size * Product(self.dimensions)]
      [] self.kind = "Typedef" /\ self.alias.num # None ->
           [self EXCEPT !.byte_size = unit[self.alias.num].byte_size]
      [] self.kind = "Pointer" /\ self.item_type.num # None ->
           [self EXCEPT !.item_type = Obj(self.item_type.num),
                        !.byte_size = unit[self.item_type.num].byte_size]
      [] self.kind = "ConstType" /\ self.item_type.num # None ->
           [self EXCEPT !.item_type = Obj(self.item_type.num),
                        !.byte_size = unit[self.item_type.num].byte_size]
      [] self.kind = "EnumType" /\ self.item_type.num # None ->
           [self EXCEPT !.byte_size = unit[self.item_type.num].byte_size]
      [] self.kind = "UnionType" /\ self.variants # <<>> ->
           [self EXCEPT !.variants[Len(self.variants)].type =
               Obj(self.variants[Len(self.variants)].type.num)]
      [] OTHER -> self

\* The assignments a do_finalize makes after its last call.
AfterCalls(self, unit) ==
    CASE self.kind = "Struct" ->
           [self EXCEPT !.members =
               [i \in 1..Len(self.members) |->
                   [self.members[i] EXCEPT !.type = Obj(self.members[i].type.num)]]]
      [] self.kind = "Array" ->
           [self EXCEPT !.byte_size =
               IF unit[self.item_type.num].byte_size = None THEN None
               ELSE unit[self.item_type.num].byte_size * Product(self.dimensions)]
      [] self.kind = "Typedef" /\ self.alias.num # None ->
           [self EXCEPT !.byte_size = unit[self.alias.num].byte_size]
      [] self.kind = "Pointer" /\ self.item_type.num # None ->
           [self EXCEPT !.item_type = Obj(self.item_type.num)]
      [] self.kind = "ConstType" /\ self.item_type.num # None ->
           [self EXCEPT !.item_type = Obj(self.item_type.num),
                        !.byte_size = unit[self.item_type.num].byte_size]
      [] self.kind = "EnumType" /\ self.item_type.num # None ->
           [self EXCEPT !.byte_size = unit[self.item_type.num].byte_size]
      [] self.kind = "UnionType" /\ self.variants # <<>> ->
           [self EXCEPT !.variants[Len(self.variants)].type =
               Obj(self.variants[Len(self.variants)].type.num)]
      [] OTHER -> self

\* do_finalize reaches its next call of finalize.
do_finalize_call ==
    /\ pc = "select" /\ call = None /\ stack # <<>>
    /\ LET top == stack[Len(stack)]
           self == types[cu][top.node]
           i == top.i + 1
       IN  /\ i <= Len(Children(self))
           /\ types' = [types EXCEPT ![cu][top.node] = BeforeCall(self, i)]
           /\ call' = Children(self)[i]
           /\ stack' = [stack EXCEPT ![Len(stack)].i = i]
    /\ UNCHANGED <<patterns, pc, error, cu, sel, finalization_order, mi,
                   all_structs, fp, pads>>

\* do_finalize returns; Type.finalize, lines 48-49, records and marks the node.
do_finalize_return ==
    /\ pc = "select" /\ call = None /\ stack # <<>>
    /\ LET top == stack[Len(stack)]
           self == types[cu][top.node]
           err == DoFinalizeError(self, types[cu])
       IN  /\ top.i = Len(Children(self))
           /\ IF err # ""
              THEN /\ pc' = "aborted"
                   /\ error' = err
                   /\ UNCHANGED <<types, stack, finalization_order>>
              ELSE /\ types' = [types EXCEPT ![cu][top.node] =
                          [AfterCalls(self, types[cu]) EXCEPT !.state = STATE_FINALIZED]]
                   /\ finalization_order' = Append(finalization_order, top.node)
                   /\ stack' = SubSeq(stack, 1, Len(stack) - 1)
                   /\ UNCHANGED <<pc, error>>
    /\ UNCHANGED <<patterns, cu, sel, call, mi, all_structs, fp, pads>>

\* ---------------------------------------------------------------------
\* The __eq__ methods.  A result is "True", "False" or "RecursionError":
\* the methods are pure, so a comparison that meets the pair it is already
\* comparing recurses until Python's recursion limit.
\* ---------------------------------------------------------------------
Bool(b) == IF b THEN "True" ELSE "False"

RECURSIVE eq(_, _, _)
RECURSIVE RefEq(_, _, _, _, _, _)
RECURSIVE members_eq(_, _, _, _)
RECURSIVE variants_eq(_, _, _, _)

\* x == y for two type references x (of unit ux) and y (of unit uy), x's
\* __eq__ being the one called.  A raw type number or None equals only the
\* same number or None; inside a list, tuple or dict an object equals itself
\* without a call of __eq__.
RefEq(ux, x, uy, y, container, path) ==
    IF ~x.obj \/ ~y.obj THEN Bool(x.obj = y.obj /\ x.num = y.num)
    ELSE IF container /\ ux = uy /\ x.num = y.num THEN "True"
    ELSE eq(<<ux, x.num>>, <<uy, y.num>>, path)

\* other.members == self.members, from member i on (here a is `other`).
members_eq(a, b, i, path) ==
    LET ma == Node(a).members
        mb == Node(b).members
    IN  IF Len(ma) # Len(mb) THEN "False"
        ELSE IF i > Len(ma) THEN "True"
        ELSE IF ma[i].offset # mb[i].offset THEN "False"
        ELSE LET r == RefEq(a[1], ma[i].type, b[1], mb[i].type, TRUE, path)
             IN  IF r # "True" THEN r
                 ELSE IF ma[i].name # mb[i].name THEN "False"
                 ELSE members_eq(a, b, i + 1, path)

\* other.variants == self.variants (OrderedDict), from entry i on.
variants_eq(a, b, i, path) ==
    LET va == Node(a).variants
        vb == Node(b).variants
    IN  IF Len(va) # Len(vb) THEN "False"
        ELSE IF i > Len(va)
             THEN Bool(\A k \in 1..Len(va) : va[k].name = vb[k].name)
        ELSE IF ~\E k \in 1..Len(vb) : vb[k].name = va[i].name THEN "False"
        ELSE LET k == CHOOSE k \in 1..Len(vb) : vb[k].name = va[i].name
                 r == RefEq(a[1], va[i].type, b[1], vb[k].type, TRUE, path)
             IN  IF r # "True" THEN r ELSE variants_eq(a, b, i + 1, path)

\* self.__eq__(other); UnsupportedType inherits object's identity comparison.
eq(self, other, path) ==
    LET a == Node(self)
        b == Node(other)
        p == path \cup {<<self, other>>}
    IN  IF <<self, other>> \in path THEN "RecursionError"
        ELSE IF a.kind = "UnsupportedType" THEN Bool(self = other)
        ELSE IF b.kind # a.kind THEN "False"
        ELSE CASE a.kind = "Primitive" ->
                    Bool(b.byte_size = a.byte_size /\ b.name = a.name)
               [] a.kind = "Struct" ->
                    IF b.byte_size # a.byte_size THEN "False"
                    ELSE LET r == members_eq(other, self, 1, p)
                         IN  IF r # "True" THEN r ELSE Bool(b.name = a.name)
               [] a.kind = "Array" ->
                    IF b.dimensions # a.dimensions THEN "False"
                    ELSE RefEq(other[1], b.item_type, self[1], a.item_type, FALSE, p)
               [] a.kind = "Typedef" ->
                    IF b.name # a.name THEN "False"
                    ELSE RefEq(other[1], b.alias, self[1], a.alias, FALSE, p)
               [] a.kind \in {"Pointer", "ConstType"} ->
                    IF b.name # a.name THEN "False"
                    ELSE RefEq(other[1], b.item_type, self[1], a.item_type, FALSE, p)
               [] a.kind = "EnumType" ->
                    IF b.name # a.name THEN "False"
                    ELSE LET r == RefEq(other[1], b.item_type, self[1], a.item_type, FALSE, p)
                         IN  IF r # "True" THEN r ELSE Bool(b.literals = a.literals)
               [] a.kind = "UnionType" ->
                    IF b.name # a.name THEN "False"
                    ELSE variants_eq(other, self, 1, p)

\* ---------------------------------------------------------------------
\* main, lines 540-555: the merge of one entry of finalization_order
\* ---------------------------------------------------------------------
SameNamed(s) ==
    {k \in 1..Len(all_structs) : Node(all_structs[k]).name = Node(s).name}

Last(S) == CHOOSE k \in S : \A j \in S : j <= k

\* The merge with the test of line 550 lost: an entry equal to the
\* same-named one is appended again.
MergeOutcome_append_equal(s) ==
    IF SameNamed(s) = {} THEN "append"
    ELSE LET r == eq(all_structs[Last(SameNamed(s))], s, {})
         IN  CASE r = "True" -> "append"
               [] r = "False" -> "AssertionError"
               [] OTHER -> r

\* What the merge of s does: "append", "discard", or the exception.
MergeOutcome(s) ==
    IF SameNamed(s) = {} THEN "append"
    ELSE LET r == eq(all_structs[Last(SameNamed(s))], s, {})
         IN  CASE r = "True" -> "discard"
               [] r = "False" -> "AssertionError"
               [] OTHER -> r

Merge ==
    /\ pc = "merge"
    /\ mi <= Len(finalization_order)
    /\ LET s == <<cu, finalization_order[mi]>>
           out == MergeOutcome(s)
       IN  CASE out = "append" ->
                  /\ all_structs' = Append(all_structs, s)
                  /\ mi' = mi + 1
                  /\ UNCHANGED <<pc, error>>
             [] out = "discard" ->
                  /\ mi' = mi + 1
                  /\ UNCHANGED <<all_structs, pc, error>>
             [] OTHER ->
                  /\ pc' = "aborted"
                  /\ error' = out
                  /\ UNCHANGED <<all_structs, mi>>
    /\ UNCHANGED <<types, patterns, cu, sel, call, stack, finalization_order,
                   fp, pads>>

\* main, line 531: the next unit, or generate_hydra_file after the last.
NextUnit ==
    /\ pc = "merge"
    /\ mi > Len(finalization_order)
    /\ IF cu < NumUnits
       THEN /\ cu' = cu + 1
            /\ sel' = 1
            /\ mi' = 1
            /\ finalization_order' = <<>>
            /\ pc' = "select"
       ELSE /\ pc' = "generate"
            /\ UNCHANGED <<cu, sel, mi, finalization_order>>
    /\ UNCHANGED <<types, patterns, error, call, stack, all_structs, fp, pads>>

\* ---------------------------------------------------------------------
\* The emitter: get_hydras_type, generate_hydras_definition,
\* generate_hydra_file.  A written line is [line, name, text, bytes]; bytes
\* is the byte size of a field or padding line.
\* ---------------------------------------------------------------------
Line(kind, name, text, bytes) ==
    [line |-> kind, name |-> name, text |-> text, bytes |-> bytes]

\* The primitive names of the model that contain 'unsigned'.
UnsignedNames == {"unsigned int", "unsigned char"}

RECURSIVE ArrayText(_, _)
ArrayText(ds, t) ==
    IF ds = <<>> THEN t
    ELSE ArrayText(SubSeq(ds, 1, Len(ds) - 1),
                   "Array(" \o ToString(ds[Len(ds)]) \o ", " \o t \o ")")

\* [err, text]: the layout type of the node o; err is the exception raised.
\* path holds the nodes whose get_hydras_type is running: a const-qualified
\* type that wraps itself recurses until Python's recursion limit.
RECURSIVE get_hydras_type_in(_, _)
get_hydras_type_in(o, path) ==
    LET self == Node(o)
        item == IF ~self.item_type.obj
                THEN [err |-> "AttributeError", text |-> ""]
                ELSE get_hydras_type_in(<<o[1], self.item_type.num>>, path \cup {o})
    IN  IF o \in path THEN [err |-> "RecursionError", text |-> ""]
        ELSE
        CASE self.kind = "Primitive" ->
               [err |-> "",
                text |-> CASE self.name = "float" -> "Float"
                           [] self.name = "double" -> "Double"
                           [] self.name \in UnsignedNames ->
                                "uint" \o ToString(self.byte_size * 8) \o "_t"
                           [] OTHER ->
                                "int" \o ToString(self.byte_size * 8) \o "_t"]
          [] self.kind = "Array" ->
               IF item.err # "" THEN item
               ELSE [err |-> "", text |-> ArrayText(self.dimensions, item.text)]
          [] self.kind = "Pointer" ->
               [err |-> "", text |-> "ptr_int_for_kaplan_todo"]
          [] self.kind = "ConstType" -> item
          [] OTHER -> [err |-> "", text |-> self.name]

get_hydras_type(o) == get_hydras_type_in(o, {})

\* Struct.generate_hydras_definition without the postfix padding of
\* lines 210-211.
RECURSIVE write_members_without_postfix(_, _, _, _, _)
write_members_without_postfix(o, i, padding_counter, last_ending_offset, out) ==
    LET self == Node(o) IN
    IF i > Len(self.members)
    THEN [err |-> "", lines |-> out]
    ELSE LET m == self.members[i]
             padded == last_ending_offset < m.offset
             out1 == IF padded
                     THEN Append(out, Line("pad", "_padding_" \o ToString(padding_counter),
                                           "Pad", m.offset - last_ending_offset))
                     ELSE out
             counter1 == IF padded THEN padding_counter + 1 ELSE padding_counter
         IN  IF ~m.type.obj THEN [err |-> "AttributeError", lines |-> out1]
             ELSE LET member_type == <<o[1], m.type.num>>
                      size == Node(member_type).byte_size
                      t == get_hydras_type(member_type)
                  IN  IF size = None THEN [err |-> "TypeError", lines |-> out1]
                      ELSE IF t.err # "" THEN [err |-> t.err, lines |-> out1]
                      ELSE write_members_without_postfix(o, i + 1, counter1, m.offset + size,
                                         Append(out1, Line("field", m.name, t.text, size)))

\* Struct.generate_hydras_definition, lines 199-211, from member i on.
RECURSIVE write_members(_, _, _, _, _)
write_members(o, i, padding_counter, last_ending_offset, out) ==
    LET self == Node(o) IN
    IF i > Len(self.members)
    THEN [err |-> "",
          lines |-> IF last_ending_offset # self.byte_size
                    THEN Append(out, Line("pad", "_padding_" \o ToString(padding_counter),
                                          "Pad", self.byte_size - last_ending_offset))
                    ELSE out]
    ELSE LET m == self.members[i]
             padded == last_ending_offset < m.offset
             out1 == IF padded
                     THEN Append(out, Line("pad", "_padding_" \o ToString(padding_counter),
                                           "Pad", m.offset - last_ending_offset))
                     ELSE out
             counter1 == IF padded THEN padding_counter + 1 ELSE padding_counter
         IN  IF ~m.type.obj THEN [err |-> "AttributeError", lines |-> out1]
             ELSE LET member_type == <<o[1], m.type.num>>
                      size == Node(member_type).byte_size
                      t == get_hydras_type(member_type)
                  IN  IF size = None THEN [err |-> "TypeError", lines |-> out1]
                      ELSE IF t.err # "" THEN [err |-> t.err, lines |-> out1]
                      ELSE write_members(o, i + 1, counter1, m.offset + size,
                                         Append(out1, Line("field", m.name, t.text, size)))

needs_to_generate_hydra(o) ==
    CASE Node(o).kind = "Struct" -> TRUE
      [] Node(o).kind = "Typedef" ->
           ~\E w \in {"8", "16", "32", "64"}, u \in {"", "u"} :
               match(u \o "int" \o w \o "_t", Node(o).name)
      [] OTHER -> FALSE

\* [err, lines]: what generate_hydras_definition of the node o writes.
generate_hydras_definition(o) ==
    LET self == Node(o) IN
    CASE self.kind = "Struct" ->
           write_members(o, 1, 0, 0, <<Line("class", self.name, "Struct", 0)>>)
      [] self.kind = "Typedef" /\ needs_to_generate_hydra(o) ->
           IF ~self.alias.obj THEN [err |-> "AttributeError", lines |-> <<>>]
           ELSE LET t == get_hydras_type(<<o[1], self.alias.num>>)
                IN  [err |-> t.err,
                     lines |-> IF t.err # "" THEN <<>>
                               ELSE <<Line("alias", self.name, t.text, 0)>>]
      [] OTHER -> [err |-> "", lines |-> <<>>]

\* generate_hydra_file, lines 496-507, from entry k of structs on.
RECURSIVE write_structs(_, _, _, _)
write_structs(structs, k, last_is_typedef, out) ==
    IF k > Len(structs) THEN [err |-> "", lines |-> out]
    ELSE IF ~needs_to_generate_hydra(structs[k])
         THEN write_structs(structs, k + 1, last_is_typedef, out)
    ELSE LET is_typedef == Node(structs[k]).kind = "Typedef"
             out1 == IF ~(is_typedef /\ last_is_typedef)
                     THEN Append(out, Line("blank", "", "", 0))
                     ELSE out
             d == generate_hydras_definition(structs[k])
         IN  IF d.err # "" THEN [err |-> d.err, lines |-> out1 \o d.lines]
             ELSE write_structs(structs, k + 1, is_typedef, out1 \o d.lines)

generate_hydra_file ==
    /\ pc = "generate"
    /\ LET w == write_structs(all_structs, 1, FALSE,
                              <<Line("import", "hydras", "", 0)>>)
       IN  /\ fp' = w.lines
           /\ error' = w.err
           /\ pc' = IF w.err = "" THEN "done" ELSE "aborted"
    /\ UNCHANGED <<types, patterns, cu, sel, call, stack, finalization_order,
                   mi, all_structs, pads>>

\* ---------------------------------------------------------------------
\* Struct.get_padding_list.  An entry is [prev, next]: the positions in
\* self.members of the fields around the gap, next = None for the
\* trailing one.
\* ---------------------------------------------------------------------
\* lines 156-162, from the pair (i, i+1) on
RECURSIVE pads_between(_, _, _)
pads_between(o, i, out) ==
    LET self == Node(o) IN
    IF i > Len(self.members) - 1 THEN [err |-> "", pads |-> out]
    ELSE LET cur == self.members[i]
             nxt == self.members[i + 1]
             size == IF cur.type.obj THEN Node(<<o[1], cur.type.num>>).byte_size
                     ELSE None
         IN  IF ~cur.type.obj THEN [err |-> "AttributeError", pads |-> out]
             ELSE IF size = None THEN [err |-> "TypeError", pads |-> out]
             ELSE pads_between(o, i + 1,
                    IF nxt.offset - cur.offset - size > 0
                    THEN Append(out, [prev |-> i, next |-> i + 1])
                    ELSE out)

get_padding_list(o) ==
    LET self == Node(o)
        between == pads_between(o, 1, <<>>)
        n == Len(self.members)
    IN  IF between.err # "" THEN between
        ELSE IF n = 0 THEN [err |-> "IndexError", pads |-> between.pads]
        ELSE IF ~self.members[n].type.obj
             THEN [err |-> "AttributeError", pads |-> between.pads]
        ELSE LET last_member == self.members[n]
                 size == Node(<<o[1], last_member.type.num>>).byte_size
             IN  IF size = None THEN [err |-> "TypeError", pads |-> between.pads]
                 ELSE [err |-> "",
                       pads |-> IF self.byte_size - (last_member.offset + size) > 0
                                THEN Append(between.pads, [prev |-> n, next |-> None])
                                ELSE between.pads]

Next ==
    \/ Select \/ SelectDone \/ finalize \/ do_finalize_call
    \/ do_finalize_return \/ Merge \/ NextUnit \/ generate_hydra_file

\* One compilation unit, every node of it drawn from every variant.
Spec == Init /\ [][Next]_vars

\* ---------------------------------------------------------------------
\* Several compilation units, each defining a struct S: DIE 1 is S, with
\* no member or the member a of type DIE 2; DIE 3 is int.
\* ---------------------------------------------------------------------
MergeUnitUniverse ==
    {<<Struct("S", sz, ms), t, Primitive("int", 4)>> :
        sz \in {4, 8},
        ms \in {<<>>, <<[offset |-> 0, type |-> Raw(2), name |-> "a"]>>},
        t \in {Primitive("int", 4), Primitive("char", 1),
               Pointer(8, Raw(1)), Pointer(8, NoRef), Pointer(8, Raw(3)),
               Typedef("S", Raw(3)), Typedef("St", Raw(3)),
               Typedef("int8_t", Raw(3)), ConstType(Raw(3)),
               Struct("S", 4, <<>>)}}

InitMerge ==
    /\ types \in [1..MergeUnits -> MergeUnitUniverse]
    /\ patterns \in {<<>>, <<"S">>}
    /\ InitMain

SpecMerge == InitMerge /\ [][Next]_vars

\* ---------------------------------------------------------------------
\* The layout methods on one finalized struct: DIE 1 is the struct, its
\* members are of the finalized types char (DIE 2), short int (DIE 3) and
\* the typedef of void T (DIE 4, which has no byte size).
\* ---------------------------------------------------------------------
Finalized(t) == [t EXCEPT !.state = STATE_FINALIZED]

LayoutStructs ==
    {Finalized(Struct("S", sz,
        [i \in 1..Len(ms) |-> [offset |-> ms[i][1], type |-> Obj(ms[i][2]),
                               name |-> FieldNames[i]]])) :
        sz \in 0..MaxByteSize,
        ms \in SeqsUpTo((0..MaxOffset) \X (2..4), LayoutMembers)}

InitLayout ==
    /\ types \in {<<<<s, Finalized(Primitive("char", 1)),
                     Finalized(Primitive("short int", 2)),
                     Finalized(Typedef("T", NoRef))>>>> : s \in LayoutStructs}
    /\ patterns = <<>>
    /\ pc = "layout"
    /\ InitRest

CallGetPaddingList ==
    /\ pc = "layout"
    /\ ~pads.called
    /\ pads' = LET r == get_padding_list(<<1, 1>>)
               IN  [called |-> TRUE, err |-> r.err, pads |-> r.pads]
    /\ UNCHANGED <<types, patterns, pc, error, cu, sel, call, stack,
                   finalization_order, mi, all_structs, fp>>

CallGenerateHydrasDefinition ==
    /\ pc = "layout"
    /\ fp = <<>>
    /\ LET w == generate_hydras_definition(<<1, 1>>)
       IN  /\ fp' = w.lines
           /\ error' = w.err
    /\ UNCHANGED <<types, patterns, pc, cu, sel, call, stack,
                   finalization_order, mi, all_structs, pads>>

NextLayout == CallGetPaddingList \/ CallGenerateHydrasDefinition

SpecLayout == InitLayout /\ [][NextLayout]_vars

\* =====================================================================
\* Properties
\* =====================================================================
\* Every node object of every unit.
Objects == UNION {{<<u, n>> : n \in 1..NumNodes(u)} : u \in 1..NumUnits}

Range(f) == {f[i] : i \in DOMAIN f}

RECURSIVE Sum(_)
Sum(q) == IF q = <<>> THEN 0 ELSE Head(q) + Sum(Tail(q))

\* The type numbers a node refers to by value, and all it refers to.
ValueRefs(t) ==
    CASE t.kind = "Struct" -> {t.members[i].type.num : i \in 1..Len(t.members)}
      [] t.kind = "Typedef" -> {t.alias.num} \ {None}
      [] t.kind = "ConstType" -> {t.item_type.num} \ {None}
      [] t.kind = "UnionType" -> {t.variants[i].type.num : i \in 1..Len(t.variants)}
      [] OTHER -> {}

TypeRefs(t) ==
    ({t.members[i].type.num : i \in 1..Len(t.members)}
     \cup {t.variants[i].type.num : i \in 1..Len(t.variants)}
     \cup {t.item_type.num, t.alias.num}) \ {None}

RECURSIVE ValueClosure(_, _)
ValueClosure(unit, S) ==
    LET S2 == S \cup UNION {ValueRefs(unit[k]) : k \in S}
    IN  IF S2 = S THEN S ELSE ValueClosure(unit, S2)

RECURSIVE TypeClosure(_, _)
TypeClosure(unit, S) ==
    LET S2 == S \cup UNION {TypeRefs(unit[k]) : k \in S}
    IN  IF S2 = S THEN S ELSE TypeClosure(unit, S2)

\* ---------------------------------------------------------------------
\* C1 (as stated): once generate_hydras_definition has written a struct
\* whose members all have a byte size, whatever their offsets, it raised
\* nothing and the byte sizes of the field and padding lines sum to the
\* struct's declared byte size.
\* ---------------------------------------------------------------------
LayoutStruct == types[1][1]
MemberSize(i) == types[1][LayoutStruct.members[i].type.num].byte_size
MembersSized == \A i \in 1..Len(LayoutStruct.members) : MemberSize(i) # None

WrittenBytes ==
    Sum([k \in 1..Len(fp) |->
            IF fp[k].line \in {"field", "pad"} THEN fp[k].bytes ELSE 0])

C1_AnyOrderSizeConserved ==
    (pc = "layout" /\ fp # <<>> /\ MembersSized)
        => (error = "" /\ WrittenBytes = LayoutStruct.byte_size)

\* The members lie in declaration order without overlap inside the struct.
EndOf(i) == IF i = 0 THEN 0 ELSE LayoutStruct.members[i].offset + MemberSize(i)

InOrder ==
    /\ MembersSized
    /\ \A i \in 1..Len(LayoutStruct.members) :
          LayoutStruct.members[i].offset >= EndOf(i - 1)
    /\ EndOf(Len(LayoutStruct.members)) <= LayoutStruct.byte_size

\* C1 (amended): for a finalized struct whose members all have a byte size
\* and lie in declaration order without overlap inside the declared size,
\* generate_hydras_definition raises nothing, writes every member once in
\* declaration order, writes only paddings of positive size, and the byte
\* sizes of the written fields and paddings sum to the declared byte size.
C1_InOrderSizeConserved ==
    (pc = "layout" /\ fp # <<>> /\ InOrder)
        => /\ error = ""
           /\ WrittenBytes = LayoutStruct.byte_size
           /\ \A k \in 1..Len(fp) : fp[k].line = "pad" => fp[k].bytes > 0
           /\ LET fields == SelectSeq(fp, LAMBDA l : l.line = "field")
              IN  /\ Len(fields) = Len(LayoutStruct.members)
                  /\ \A i \in 1..Len(fields) :
                        /\ fields[i].name = LayoutStruct.members[i].name
                        /\ fields[i].bytes = MemberSize(i)

\* Written: a struct with a gap between its two members and a trailing gap.
C1_Witness ==
    /\ pc = "layout" /\ fp # <<>> /\ InOrder
    /\ Len(LayoutStruct.members) = 2
    /\ Cardinality({k \in 1..Len(fp) : fp[k].line = "pad"}) = 2

\* ---------------------------------------------------------------------
\* C2: no struct from which a chain of value-type references (struct
\* member, typedef alias, const-qualified wrapped type, union variant)
\* leads back to itself is ever marked Finalized.
\* ---------------------------------------------------------------------
OnValueCycle(o) ==
    o[2] \in ValueClosure(types[o[1]], ValueRefs(Node(o)))

C2_CyclicStructNeverFinalized ==
    \A o \in Objects :
        (Node(o).kind = "Struct" /\ OnValueCycle(o))
            => Node(o).state # STATE_FINALIZED

\* ---------------------------------------------------------------------
\* C3: a merge step aborts exactly when the entry merged is a struct, a
\* struct of the same name is in all_structs, and the two are not equal.
\* ---------------------------------------------------------------------
Conflict(s) ==
    /\ Node(s).kind = "Struct"
    /\ \E k \in 1..Len(all_structs) :
          /\ Node(all_structs[k]).kind = "Struct"
          /\ Node(all_structs[k]).name = Node(s).name
          /\ eq(all_structs[k], s, {}) = "False"

C3_AbortIffStructConflict ==
    [][(pc = "merge" /\ mi <= Len(finalization_order))
          => ((pc' = "aborted") <=> Conflict(<<cu, finalization_order[mi]>>))]_vars

\* ---------------------------------------------------------------------
\* C4: as long as main has not aborted, no two entries of all_structs
\* have the same name; every name finalized in a unit already merged has
\* its entry, which comes from the first unit that finalized the name and
\* is never replaced; and the output holds exactly one class block for
\* each struct of all_structs.
\* ---------------------------------------------------------------------
MergedUnits == IF pc \in {"generate", "done"} THEN 1..NumUnits ELSE 1..(cu - 1)

C4_OneEntryPerName ==
    pc # "aborted" =>
        /\ \A i, j \in 1..Len(all_structs) :
              Node(all_structs[i]).name = Node(all_structs[j]).name => i = j
        /\ \A o \in Objects :
              (o[1] \in MergedUnits /\ Node(o).state = STATE_FINALIZED)
                 => \E k \in 1..Len(all_structs) :
                       /\ Node(all_structs[k]).name = Node(o).name
                       /\ all_structs[k][1] <= o[1]
        /\ \A k \in 1..Len(all_structs) :
              /\ Node(all_structs[k]).state = STATE_FINALIZED
              /\ ~\E o \in Objects :
                    /\ o[1] < all_structs[k][1]
                    /\ Node(o).state = STATE_FINALIZED
                    /\ Node(o).name = Node(all_structs[k]).name
        /\ pc = "done" =>
              \A k \in 1..Len(all_structs) :
                  Node(all_structs[k]).kind = "Struct" =>
                      Cardinality({l \in 1..Len(fp) :
                          /\ fp[l].line = "class"
                          /\ fp[l].name = Node(all_structs[k]).name}) = 1

\* Two units finalized the same struct S; the first is the one entry S.
C4_Witness ==
    /\ pc = "done"
    /\ NumUnits >= 2
    /\ types[1][1].state = STATE_FINALIZED
    /\ types[2][1].state = STATE_FINALIZED
    /\ types[1][1].members # <<>>
    /\ {k \in 1..Len(all_structs) : Node(all_structs[k]).name = "S"} # {}
    /\ \A k \in 1..Len(all_structs) :
          Node(all_structs[k]).name = "S" => all_structs[k] = <<1, 1>>

\* ---------------------------------------------------------------------
\* C5: when the selection loop of a unit has ended, finalization_order
\* holds every node reachable from a selected node through type
\* references, each once, and every node after all the nodes it refers to.
\* ---------------------------------------------------------------------
SelectedRoots == {n \in 1..NumNodes(cu) : Selected(types[cu][n])}

C5_OrderIsDependencyClosure ==
    pc = "merge" =>
        /\ Range(finalization_order) = TypeClosure(types[cu], SelectedRoots)
        /\ \A i, j \in 1..Len(finalization_order) :
              finalization_order[i] = finalization_order[j] => i = j
        /\ \A i \in 1..Len(finalization_order) :
              \A r \in TypeRefs(types[cu][finalization_order[i]]) :
                  \E j \in 1..(i - 1) : finalization_order[j] = r

\* ---------------------------------------------------------------------
\* C6: a node's state only moves Initial -> InProgress -> Finalized;
\* finalize on a Finalized node changes no node, not the finalization
\* order, and raises nothing; finalize on an InProgress node raises the
\* cycle error and changes no node and not the finalization order.
\* ---------------------------------------------------------------------
C6_LifecycleMonotonic ==
    [][/\ \A o \in Objects :
             \/ types'[o[1]][o[2]].state = Node(o).state
             \/ /\ types'[o[1]][o[2]].state = Node(o).state + 1
                /\ Node(o).state < STATE_FINALIZED
       /\ (pc = "select" /\ call # None
             /\ types[cu][call].state = STATE_FINALIZED)
            => /\ types' = types
               /\ finalization_order' = finalization_order
               /\ stack' = stack
               /\ pc' = pc /\ error' = error
       /\ (pc = "select" /\ call # None
             /\ types[cu][call].state = STATE_IN_PROCESS)
            => /\ types' = types
               /\ finalization_order' = finalization_order
               /\ stack' = stack
               /\ pc' = "aborted" /\ error' = "Type cycle detected"]_vars

\* The selection loop has called finalize on node 2, which the struct at
\* node 1 had finalized as its member before.
C6_Witness ==
    /\ pc = "select" /\ call = None /\ stack = <<>> /\ sel = 3
    /\ Selected(types[1][2])
    /\ types[1][1].kind = "Struct" /\ types[1][1].state = STATE_FINALIZED
    /\ types[1][1].members # <<>> /\ types[1][1].members[1].type.num = 2
    /\ types[1][2].state = STATE_FINALIZED
    /\ finalization_order = <<2, 1>>

\* ---------------------------------------------------------------------
\* C7 (as stated): every Finalized node has a byte size.
\* ---------------------------------------------------------------------
C7_FinalizedHasSize ==
    \A o \in Objects :
        Node(o).state = STATE_FINALIZED => Node(o).byte_size # None

\* C7 (amended): every Finalized primitive, struct, pointer and union has
\* a byte size (a Finalized typedef, const-qualified type, array, enum or
\* unsupported node may have none), and the byte size of a Finalized node,
\* defined or not, never changes.
DeclaredSizeKinds == {"Primitive", "Struct", "Pointer", "UnionType"}

C7_DeclaredSizeKept ==
    [][\A o \in Objects :
          /\ (types'[o[1]][o[2]].state = STATE_FINALIZED
                /\ Node(o).kind \in DeclaredSizeKinds)
               => types'[o[1]][o[2]].byte_size # None
          /\ Node(o).state = STATE_FINALIZED
               => /\ types'[o[1]][o[2]].byte_size = Node(o).byte_size
                  /\ types'[o[1]][o[2]].state = STATE_FINALIZED]_vars

\* A finalized struct, with its size, whose finalized member has none.
C7_Witness ==
    \E o, q \in Objects :
        /\ Node(o).state = STATE_FINALIZED /\ Node(o).kind = "Struct"
        /\ Node(o).byte_size = 4
        /\ Node(o).members[1].type = Obj(q[2])
        /\ Node(q).state = STATE_FINALIZED /\ Node(q).byte_size = None

\* ---------------------------------------------------------------------
\* C8: the selection loop calls finalize on a node exactly when the node
\* is a struct, has a name, and a pattern matches the name; without
\* patterns no node leaves STATE_INITIAL and no class block is written.
\* ---------------------------------------------------------------------
C8_RootIffMatchingStruct ==
    [][/\ (pc = "select" /\ call = None /\ stack = <<>> /\ sel <= NumNodes(cu))
            => ((call' = sel) <=>
                    /\ types[cu][sel].kind = "Struct"
                    /\ types[cu][sel].name # NoName
                    /\ \E k \in 1..Len(patterns) :
                          match(patterns[k], types[cu][sel].name))
       /\ patterns = <<>> =>
            /\ \A o \in Objects : types'[o[1]][o[2]].state = STATE_INITIAL
            /\ \A l \in 1..Len(fp') : fp'[l].line # "class"]_vars

\* ---------------------------------------------------------------------
\* C9: for a finalized struct whose members all have a byte size, a
\* struct without members included, get_padding_list returns one entry
\* for each adjacent pair of members with next.offset > cur.offset +
\* cur.size, one trailing entry iff size > last.offset + last.size, and
\* nothing else.
\* ---------------------------------------------------------------------
ExpectedPads ==
    LET ms == LayoutStruct.members
        n == Len(ms)
    IN  {[prev |-> i, next |-> i + 1] : i \in
            {i \in 1..(n - 1) : ms[i + 1].offset > ms[i].offset + MemberSize(i)}}
        \cup (IF n > 0 /\ LayoutStruct.byte_size > ms[n].offset + MemberSize(n)
              THEN {[prev |-> n, next |-> None]} ELSE {})

C9_PaddingListExact ==
    (pc = "layout" /\ pads.called /\ MembersSized)
        => /\ pads.err = ""
           /\ Range(pads.pads) = ExpectedPads
           /\ Len(pads.pads) = Cardinality(ExpectedPads)

\* ---------------------------------------------------------------------
\* C10: the comparison of any two finalized structs ends with True or
\* False.
\* ---------------------------------------------------------------------
C10_StructEqTerminates ==
    \A a, b \in Objects :
        (/\ Node(a).kind = "Struct" /\ Node(a).state = STATE_FINALIZED
         /\ Node(b).kind = "Struct" /\ Node(b).state = STATE_FINALIZED)
            => eq(a, b, {}) \in {"True", "False"}
====
